---- MODULE Spec2Model ----
(***************************************************************************)
(* The incremental indexing and retrieval pipeline of RAGChatbot           *)
(* (src/rag_chatbot.py): the documents folder, the ChromaDB collection,    *)
(* the processed-files set, auto_index_documents as a loop over the        *)
(* scanned files, and chat with its semantic search and fuzzy fallback.    *)
(*                                                                         *)
(* Texts (file bodies, chunks, queries) are sequences of one-character     *)
(* strings, so that slicing, lower-casing and splitting act on            *)
(* characters as in the code.  Filenames, hashes, chunk ids and the text   *)
(* produced by the generative model are strings.  Distances are counted    *)
(* in hundredths (0.3 is 30).                                              *)
(***************************************************************************)
EXTENDS Integers, Sequences, FiniteSets, TLC

VARIABLES
    folder_exists,    \* os.path.exists(self.documents_folder)
    folder,           \* the documents folder: filename -> content (Absent: no such file)
    collection,       \* self.collection: the chunk records, in insertion order
    processed_files,  \* self.processed_files
    idx_pc,           \* position of auto_index_documents
    files,            \* auto_index_documents: the scanned files not yet visited
    cur,              \* auto_index_documents: filename, file_hash, text of the file in hand
    new_files,        \* auto_index_documents: new_files
    updated_files,    \* auto_index_documents: updated_files
    result,           \* the value the last auto_index_documents call returned
    event,            \* what the last step of auto_index_documents did
    snap,             \* history: the collection when the last call began
    settled,          \* history: a call has returned and the folder is unchanged since
    rerun,            \* history: the last call began in a settled state
    faults,           \* history: how many collaborator calls have failed so far
    chat_call,        \* the chat call in progress or just answered (NoChat: none)
    chunk_call,       \* a chunk_text call on its own: arguments, start, chunks (NoCall: none)
    search_call       \* a search_documents call on its own, answered (NoCall: none)

vars == <<folder_exists, folder, collection, processed_files, idx_pc, files, cur,
          new_files, updated_files, result, event, snap, settled, rerun, faults,
          chat_call, chunk_call, search_call>>

-----------------------------------------------------------------------------
(* Bounds of the model *)

\* Length of the body of the long document (more than one chunk).
LongLen == 900

\* How many collaborator calls (file read, extraction, vector store) may fail
\* in one behaviour.
MaxFaults == 2

-----------------------------------------------------------------------------
(* Texts *)

Min(a, b) == IF a < b THEN a ELSE b

Range(s) == {s[i] : i \in DOMAIN s}

\* The sequences that list every element of S once.
Orderings(S) ==
    {s \in [1..Cardinality(S) -> S] : \A i, j \in DOMAIN s : i # j => s[i] # s[j]}

\* text[start:end] (Python slice, 0-based, end exclusive): a negative index
\* counts from the end, and both are clipped to the text.
Slice(text, start, end) ==
    LET n == Len(text)
        clip(i) == IF i < 0 THEN (IF i + n < 0 THEN 0 ELSE i + n) ELSE Min(i, n)
    IN IF clip(start) < clip(end) THEN SubSeq(text, clip(start) + 1, clip(end)) ELSE <<>>

ShortBody ==
    <<"R","e","f","u","n","d","s"," ","a","r","e"," ","p","r","o","c","e","s","s","e","d",
      " ","w","i","t","h","i","n"," ","3","0"," ","d","a","y","s">>

LongPattern ==
    <<"B","i","d","s"," ","a","r","e"," ","s","u","b","m","i","t","t","e","d"," ",
      "o","n","l","i","n","e","\n">>

RefundQuery == <<"r","e","f","u","n","d"," ","t","i","m","e","l","i","n","e">>
HelloQuery == <<"H","e","l","l","o">>
Queries == {RefundQuery, HelloQuery}

LongBody == [i \in 1..LongLen |-> LongPattern[((i - 1) % Len(LongPattern)) + 1]]

-----------------------------------------------------------------------------
(* The documents folder *)

PdfFiles == {"a.pdf"}
TxtFiles == {"b.txt"}
Filenames == PdfFiles \cup TxtFiles

Absent == "absent"
Contents == {"short", "long", "empty"}

\* The text a content holds: a TXT file's characters, a PDF's single page
\* (the empty content is a zero-byte TXT file, a PDF without pages).
Body(content) ==
    CASE content = "short" -> ShortBody
      [] content = "long"  -> LongBody
      [] content = "empty" -> <<>>

Pages(content) == IF Body(content) = <<>> THEN <<>> ELSE <<Body(content)>>

\* hashlib.md5(bytes).hexdigest(): one digest per content, no collisions modelled.
Md5(content) ==
    CASE content = "short" -> "md5-short"
      [] content = "long"  -> "md5-long"
      [] content = "empty" -> "md5-empty"

get_file_hash(content, fails) == IF fails THEN "" ELSE Md5(content)

RECURSIVE JoinPages(_)
JoinPages(pages) ==
    IF pages = <<>> THEN <<>> ELSE Head(pages) \o <<"\n">> \o JoinPages(Tail(pages))

extract_text_from_pdf(content, fails) == IF fails THEN <<>> ELSE JoinPages(Pages(content))

extract_text_from_txt(content, fails) == IF fails THEN <<>> ELSE Body(content)

\* glob("*.pdf") then glob("*.txt"), each in the order the file system lists them.
scan_documents_folder ==
    IF ~folder_exists THEN {<<>>}
    ELSE {p \o t : p \in Orderings({f \in PdfFiles : folder[f] # Absent}),
                   t \in Orderings({f \in TxtFiles : folder[f] # Absent})}

-----------------------------------------------------------------------------
(* The vector store: a ChromaDB collection as a sequence of records         *)
(* [id, document, metadata], in insertion order.                            *)

Ids(records) == {records[i].id : i \in DOMAIN records}

WhereMatches(metadata, where) == \A k \in DOMAIN where : metadata[k] = where[k]

CollectionGetWhere(coll, where) ==
    LET hit(r) == WhereMatches(r.metadata, where) IN SelectSeq(coll, hit)

CollectionDelete(coll, ids) ==
    LET keep(r) == r.id \notin ids IN SelectSeq(coll, keep)

\* collection.add of records whose ids may exist already: the client either
\* raises (DuplicateIDError) or skips the existing ids, by its version.
CollectionAdd(coll, records, fails, on_duplicate) ==
    IF fails THEN [ok |-> FALSE, collection |-> coll]
    ELSE IF Ids(records) \cap Ids(coll) = {}
    THEN [ok |-> TRUE, collection |-> coll \o records]
    ELSE IF on_duplicate = "raise" THEN [ok |-> FALSE, collection |-> coll]
    ELSE LET fresh(r) == r.id \notin Ids(coll)
         IN [ok |-> TRUE, collection |-> coll \o SelectSeq(records, fresh)]

-----------------------------------------------------------------------------
(* RAGChatbot: indexing *)

chunk_size == 1000
overlap == 200

\* A chunker that starts the next window where the last one ended.
NextStart_no_overlap(end, lap) == end

\* line 88: start = end - overlap
NextStart(end, lap) == end - lap

RECURSIVE chunk_loop(_, _, _, _, _)
chunk_loop(text, size, lap, start, chunks) ==
    IF start < Len(text)
    THEN LET end == start + size
             chunk == Slice(text, start, end)
         IN chunk_loop(text, size, lap, NextStart(end, lap), Append(chunks, chunk))
    ELSE chunks

chunk_text(text, size, lap) == chunk_loop(text, size, lap, 0, <<>>)

get_processed_files(coll, fails) ==
    IF fails THEN {} ELSE {coll[i].metadata.source : i \in DOMAIN coll}

get_stored_file_hash(coll, filename, fails) ==
    IF fails THEN ""
    ELSE LET results == CollectionGetWhere(coll, [source |-> filename, chunk_id |-> 0])
         IN IF results # <<>> THEN results[1].metadata.file_hash ELSE ""

\* A remove_document that deletes the first chunk only.
remove_document_first_chunk(coll, filename, fails) ==
    IF fails THEN coll
    ELSE LET results == CollectionGetWhere(coll, [source |-> filename, chunk_id |-> 0])
         IN IF results # <<>> THEN CollectionDelete(coll, Ids(results)) ELSE coll

\* A remove_document whose delete is not restricted to the ids found.
remove_document_everything(coll, filename, fails) ==
    IF fails THEN coll
    ELSE LET results == CollectionGetWhere(coll, [source |-> filename])
         IN IF results # <<>> THEN CollectionDelete(coll, Ids(coll)) ELSE coll

remove_document(coll, filename, fails) ==
    IF fails THEN coll
    ELSE LET results == CollectionGetWhere(coll, [source |-> filename])
         IN IF results # <<>> THEN CollectionDelete(coll, Ids(results)) ELSE coll

ChunkId(filename, i) == filename \o "_" \o ToString(i)

ChunkRecords(text, filename, file_hash) ==
    LET chunks == chunk_text(text, chunk_size, overlap)
    IN [k \in 1..Len(chunks) |->
          [id |-> ChunkId(filename, k - 1),
           document |-> chunks[k],
           metadata |-> [source |-> filename, chunk_id |-> k - 1, file_hash |-> file_hash]]]

add_document(coll, text, filename, file_hash, fails, on_duplicate) ==
    CollectionAdd(coll, ChunkRecords(text, filename, file_hash), fails, on_duplicate)

\* A change detector that looks at the processed set only.
NeedsProcessing_new_only(filename, processed, stored_hash, file_hash) ==
    filename \notin processed

\* line 124: the file is new, or its stored hash differs.
NeedsProcessing(filename, processed, stored_hash, file_hash) ==
    filename \notin processed \/ stored_hash # file_hash

\* An indexer that does not test the extracted text.
HasText_always(text) == TRUE

\* line 134: if text
HasText(text) == text # <<>>

\* lines 109-112: nothing scanned, the call returns a bare empty list.
EmptyScanResult == <<>>

\* line 146: return new_files, updated_files
IndexResult(new, updated) == <<new, updated>>

NoFile == [filename |-> "", file_hash |-> "", text |-> <<>>]

NoChat == [status |-> "none"]

NoCall == [pc |-> "none"]

\* The caller has taken the result of the last auto_index_documents call.
ResultTaken ==
    /\ idx_pc' = "idle"
    /\ result' = <<>>
    /\ event' = "init"
    /\ snap' = <<>>
    /\ rerun' = FALSE
    /\ UNCHANGED <<files, cur, new_files, updated_files>>

\* No call of auto_index_documents is in progress.
IdxIdle == idx_pc \in {"idle", "returned", "raised"}

Failures(flags) == Cardinality({i \in DOMAIN flags : flags[i]})

\* auto_index_documents up to the loop: scan, and return when nothing is found.
AutoIndexBegin ==
    /\ IdxIdle
    /\ chat_call = NoChat
    /\ \E scanned \in scan_documents_folder :
          /\ files' = scanned
          /\ IF scanned = <<>>
             THEN /\ idx_pc' = "returned"
                  /\ result' = EmptyScanResult
                  /\ settled' = TRUE
             ELSE /\ idx_pc' = "loop"
                  /\ result' = <<>>
                  /\ settled' = settled
    /\ folder_exists' = TRUE
    /\ new_files' = <<>>
    /\ updated_files' = <<>>
    /\ cur' = NoFile
    /\ event' = "scan"
    /\ snap' = collection
    /\ rerun' = settled
    /\ UNCHANGED <<folder, collection, processed_files, faults, chat_call, chunk_call,
                   search_call>>

\* One pass of the loop body up to add_document: fingerprint, classify, extract,
\* and remove the old version of a known file.  F: whether a collaborator may fail.
CheckFile(F) ==
    /\ idx_pc = "loop"
    /\ files # <<>>
    /\ chat_call = NoChat
    /\ \E hash_fails \in F, get_fails \in F, extract_fails \in F, delete_fails \in F :
         LET file_path == Head(files)
             filename == file_path
             file_hash == get_file_hash(folder[file_path], hash_fails)
             stored_hash == get_stored_file_hash(collection, filename, get_fails)
             text == IF file_path \in PdfFiles
                     THEN extract_text_from_pdf(folder[file_path], extract_fails)
                     ELSE extract_text_from_txt(folder[file_path], extract_fails)
             failed == Failures(<<hash_fails, get_fails, extract_fails, delete_fails>>)
         IN /\ faults + failed <= MaxFaults
            /\ faults' = faults + failed
            /\ IF ~NeedsProcessing(filename, processed_files, stored_hash, file_hash)
               THEN /\ event' = "unchanged"
                    /\ files' = Tail(files)
                    /\ cur' = [filename |-> filename, file_hash |-> file_hash,
                               text |-> <<>>]
                    /\ UNCHANGED <<idx_pc, collection, new_files, updated_files>>
               ELSE IF ~HasText(text)
               THEN /\ event' = "no_text"
                    /\ files' = Tail(files)
                    /\ cur' = [filename |-> filename, file_hash |-> file_hash,
                               text |-> text]
                    /\ UNCHANGED <<idx_pc, collection, new_files, updated_files>>
               ELSE /\ cur' = [filename |-> filename, file_hash |-> file_hash,
                               text |-> text]
                    /\ idx_pc' = "add"
                    /\ files' = files
                    /\ IF filename \in processed_files
                       THEN /\ collection' =
                                  remove_document(collection, filename, delete_fails)
                            /\ updated_files' = Append(updated_files, filename)
                            /\ new_files' = new_files
                            /\ event' = IF delete_fails THEN "remove_failed" ELSE "removed"
                       ELSE /\ collection' = collection
                            /\ new_files' = Append(new_files, filename)
                            /\ updated_files' = updated_files
                            /\ event' = "new"
    /\ UNCHANGED <<folder_exists, folder, processed_files, result, snap, settled, rerun,
                   chat_call, chunk_call, search_call>>

\* add_document and processed_files.add; a failing add (or embedding) raises out
\* of the call.
AddStep(F) ==
    /\ idx_pc = "add"
    /\ chat_call = NoChat
    /\ \E add_fails \in F, on_duplicate \in {"raise", "ignore"} :
         LET added == add_document(collection, cur.text, cur.filename, cur.file_hash,
                                   add_fails, on_duplicate)
         IN /\ faults + Failures(<<add_fails>>) <= MaxFaults
            /\ faults' = faults + Failures(<<add_fails>>)
            /\ IF added.ok
               THEN /\ collection' = added.collection
                    /\ processed_files' = processed_files \cup {cur.filename}
                    /\ files' = Tail(files)
                    /\ idx_pc' = "loop"
                    /\ event' = IF event = "remove_failed" THEN "added_over_old"
                                ELSE "added"
                    /\ UNCHANGED <<cur, new_files, updated_files>>
               ELSE /\ idx_pc' = "raised"
                    /\ event' = "add_raised"
                    /\ files' = <<>>
                    /\ cur' = NoFile
                    /\ new_files' = <<>>
                    /\ updated_files' = <<>>
                    /\ UNCHANGED <<collection, processed_files>>
    /\ UNCHANGED <<folder_exists, folder, result, snap, settled, rerun, chat_call,
                   chunk_call, search_call>>

\* The loop is over: return new_files, updated_files.
AutoIndexReturn ==
    /\ idx_pc = "loop"
    /\ files = <<>>
    /\ chat_call = NoChat
    /\ idx_pc' = "returned"
    /\ result' = IndexResult(new_files, updated_files)
    /\ settled' = TRUE
    /\ event' = "return"
    /\ cur' = NoFile
    /\ new_files' = <<>>
    /\ updated_files' = <<>>
    /\ UNCHANGED <<folder_exists, folder, collection, processed_files, files, snap,
                   rerun, faults, chat_call, chunk_call, search_call>>

-----------------------------------------------------------------------------
(* RAGChatbot: retrieval *)

\* A result of collection.query or of the fuzzy search: the lists of the first
\* (only) query, parallel.
EmptyResult == [ids |-> <<>>, documents |-> <<>>, metadatas |-> <<>>, distances |-> <<>>]

\* The distances the embedding model may put between a query and a chunk.
Distances == {30, 31}

\* line 211: d > 0.3
LowSimilarityThreshold == 30

\* line 250: 'distances': [[0.2]]
FuzzyDistance == 20

\* lines 189, 214: n_results = 3
DefaultNResults == 3

\* collection.query(n_results): the positions of the nearest chunks, nearest
\* first; chunks at equal distance come in any order.
NearestPositions(coll, dist, n_results) ==
    LET n == Len(coll)
        m == Min(n_results, n)
    IN {s \in [1..m -> 1..n] :
          /\ \A i, j \in 1..m : i < j => s[i] # s[j] /\ dist[s[i]] <= dist[s[j]]
          /\ \A j \in 1..n : (\A i \in 1..m : s[i] # j) => \A i \in 1..m : dist[s[i]] <= dist[j]}

CollectionQuery(coll, dist, positions) ==
    [ids |-> [i \in DOMAIN positions |-> coll[positions[i]].id],
     documents |-> [i \in DOMAIN positions |-> coll[positions[i]].document],
     metadatas |-> [i \in DOMAIN positions |-> coll[positions[i]].metadata],
     distances |-> [i \in DOMAIN positions |-> dist[positions[i]]]]

\* An _is_low_similarity whose threshold is inclusive (d >= 0.3).
_is_low_similarity_inclusive(results) ==
    IF results.documents # <<>>
    THEN \A i \in DOMAIN results.distances : results.distances[i] >= LowSimilarityThreshold
    ELSE TRUE

_is_low_similarity(results) ==
    IF results.documents # <<>>
    THEN \A i \in DOMAIN results.distances : results.distances[i] > LowSimilarityThreshold
    ELSE TRUE

UpperLetters ==
    <<"A","B","C","D","E","F","G","H","I","J","K","L","M","N","O","P","Q","R","S","T","U",
      "V","W","X","Y","Z">>
LowerLetters ==
    <<"a","b","c","d","e","f","g","h","i","j","k","l","m","n","o","p","q","r","s","t","u",
      "v","w","x","y","z">>

\* str.lower() on one character
Lower(c) ==
    IF \E i \in DOMAIN UpperLetters : UpperLetters[i] = c
    THEN LowerLetters[CHOOSE i \in DOMAIN UpperLetters : UpperLetters[i] = c]
    ELSE c

IsSpace(c) == c \in {" ", "\n", "\t"}

\* text.lower().split(): the words, each as [first, last, chars], one per
\* occurrence.
SplitWords(text) ==
    LET n == Len(text)
        starts == {i \in 1..n : ~IsSpace(text[i]) /\ (i = 1 \/ IsSpace(text[i - 1]))}
        last(i) == CHOOSE j \in i..n :
                       /\ j = n \/ IsSpace(text[j + 1])
                       /\ \A k \in i..j : ~IsSpace(text[k])
    IN {[first |-> i, last |-> last(i), chars |-> {Lower(text[k]) : k \in i..last(i)}] :
          i \in starts}

WordLen(w) == w.last - w.first + 1

\* A similarity test whose threshold is inclusive (>= 0.7).
Similar_inclusive(word, doc_word) ==
    LET common_chars == word.chars \cap doc_word.chars
        total_chars == word.chars \cup doc_word.chars
    IN 10 * Cardinality(common_chars) >= 7 * Cardinality(total_chars)

\* lines 241-243: len(common_chars) / len(total_chars) > 0.7
Similar(word, doc_word) ==
    LET common_chars == word.chars \cap doc_word.chars
        total_chars == word.chars \cup doc_word.chars
    IN 10 * Cardinality(common_chars) > 7 * Cardinality(total_chars)

\* lines 230-244: the score of one document
Score(query, doc) ==
    LET query_words == SplitWords(query)
    IN Cardinality({pair \in {w \in query_words : WordLen(w) > 3} \X SplitWords(doc) :
                       /\ WordLen(pair[1]) > 3 /\ WordLen(pair[2]) > 3
                       /\ Similar(pair[1], pair[2])})

\* The chunk texts the folder's contents give, and their scores, computed once.
KnownChunks ==
    UNION {Range(chunk_text(extract_text_from_pdf(c, FALSE), chunk_size, overlap))
             \cup Range(chunk_text(extract_text_from_txt(c, FALSE), chunk_size, overlap)) :
           c \in Contents}

\* Query tokens and chunk words at the edges of the similarity test:
\* "abcd" and "abca" share 3 of 4 characters (0.75); "abcdefgh" and "abcdefgij"
\* 7 of 10 (0.7); "abcdefghijklmnop" and "abcdefghijklmqrst" 13 of 20 (0.65);
\* "abc" has three characters.
AbcdQuery == <<"a","b","c","d">>
EightQuery == <<"a","b","c","d","e","f","g","h">>
SixteenQuery == <<"a","b","c","d","e","f","g","h","i","j","k","l","m","n","o","p">>
AbcQuery == <<"a","b","c">>
TwiceQuery == <<"A","B","C","D"," ","a","b","c","d">>
SearchQueries == {AbcdQuery, EightQuery, SixteenQuery, AbcQuery, TwiceQuery}

AbcaText == <<"a","b","c","a">>
EdgesText ==
    <<"a","b","c","d","e","f","g","i","j"," ","a","b","c","d","e","f","g","h","i","j","k","l","m","q","r","s","t"," ","a","b","c">>
TwoWordsText == <<"A","b","c","a"," ","x","y","z">> \o <<"\n">> \o <<"a","b","c","d">>
SearchTexts == <<AbcaText, EdgesText, TwoWordsText>>

KnownScores == [q \in Queries, d \in KnownChunks |-> Score(q, d)]

SearchScores == [q \in SearchQueries, d \in Range(SearchTexts) |-> Score(q, d)]

FuzzyScore(query, doc) ==
    IF query \in Queries /\ doc \in KnownChunks THEN KnownScores[query, doc]
    ELSE IF query \in SearchQueries /\ doc \in Range(SearchTexts)
    THEN SearchScores[query, doc]
    ELSE Score(query, doc)

\* lines 228-255: the loop over all documents, from position i on
RECURSIVE FuzzyLoop(_, _, _, _, _)
FuzzyLoop(all_docs, query, n_results, i, best_matches) ==
    IF i > Len(all_docs) THEN best_matches
    ELSE LET score == FuzzyScore(query, all_docs[i].document)
             matches == IF score > 0
                        THEN Append(best_matches,
                                    [ids |-> <<all_docs[i].id>>,
                                     documents |-> <<all_docs[i].document>>,
                                     metadatas |-> <<all_docs[i].metadata>>,
                                     distances |-> <<FuzzyDistance>>])
                        ELSE best_matches
         IN IF Len(matches) >= n_results THEN matches
            ELSE FuzzyLoop(all_docs, query, n_results, i + 1, matches)

\* _fuzzy_search returns a result, or None
None == [none |-> TRUE, value |-> EmptyResult]
Some(value) == [none |-> FALSE, value |-> value]

\* fails: collection.get raises, and the except branch returns None
_fuzzy_search(coll, query, n_results, fails) ==
    IF fails THEN None
    ELSE IF coll = <<>> THEN None
    ELSE LET best_matches == FuzzyLoop(coll, query, n_results, 1, <<>>)
         IN IF best_matches # <<>> THEN Some(best_matches[1]) ELSE None

\* search_documents(query, n_results = 3), given what collection.query returned:
\* the results it returns, and whether it called _fuzzy_search
\* A search_documents that never returns the fallback's result.
search_documents_keeps_semantic(coll, query, results, n_results, fuzzy_fails) ==
    [fuzzy_called |-> results.documents = <<>> \/ _is_low_similarity(results),
     results |-> results]

search_documents(coll, query, results, n_results, fuzzy_fails) ==
    IF results.documents = <<>> \/ _is_low_similarity(results)
    THEN LET fuzzy_matches == _fuzzy_search(coll, query, n_results, fuzzy_fails)
         IN [fuzzy_called |-> TRUE,
             results |-> IF ~fuzzy_matches.none THEN fuzzy_matches.value ELSE results]
    ELSE [fuzzy_called |-> FALSE, results |-> results]

\* The prompt: the f-string of lines 265-312, a fixed text with the values it
\* interpolates.
Prompt(query, context) == [template |-> "rules and manual summaries", values |-> <<query>>]

\* model.generate_content: an answer, or an exception with its message.
GeneratorOutcomes ==
    {[ok |-> TRUE, text |-> "Refunds take 30 days."],
     [ok |-> FALSE, text |-> "503 service unavailable"]}

\* A generate_response without its try/except.
generate_response_raises(query, context, generated) ==
    IF generated.ok THEN [raised |-> FALSE, text |-> generated.text]
    ELSE [raised |-> TRUE, text |-> ""]

generate_response(query, context, generated) ==
    IF generated.ok THEN [raised |-> FALSE, text |-> generated.text]
    ELSE [raised |-> FALSE, text |-> "Error generating response: " \o generated.text]

NoDocumentsMessage ==
    "I don't have any documents to search through. Please upload some documents first."

RECURSIVE Join(_, _)
Join(strings, separator) ==
    IF strings = <<>> THEN ""
    ELSE IF Len(strings) = 1 THEN strings[1]
    ELSE strings[1] \o separator \o Join(Tail(strings), separator)

\* lines 329-334: context += f"From {source}:\n{doc}\n\n", one entry per chunk
Context(search_results) ==
    [i \in DOMAIN search_results.documents |->
        [source |-> search_results.metadatas[i].source,
         doc |-> search_results.documents[i]]]

\* A chat that keeps the source of the first chunk only.
Sources_of_first(search_results) ==
    {search_results.metadatas[i].source : i \in DOMAIN search_results.documents \cap {1}}

Sources(search_results) ==
    {search_results.metadatas[i].source : i \in DOMAIN search_results.documents}

\* lines 340-341: the set is joined in the order its iteration gives
WithSources(response, source_order) ==
    IF source_order # <<>> THEN response \o "\n\nSources: " \o Join(source_order, ", ")
    ELSE response

\* A chat that never takes the no-documents exit.
NoDocuments_never(search_results) == FALSE

\* line 325: if not search_results['documents'][0]
NoDocuments(search_results) == search_results.documents = <<>>

\* History of a chat call: the processed files that had no chunk in the store
\* when it searched, and the file whose update was between remove_document and
\* add_document then.
HalfUpdatedFiles ==
    {f \in processed_files : \A i \in DOMAIN collection : collection[i].metadata.source # f}

FilesBetweenSteps == IF idx_pc = "add" /\ event = "removed" THEN {cur.filename} ELSE {}

\* chat(query): search, prompt, generation and the sources line, for the
\* queries Q and the embedding distances D.
ChatAnswers(Q, D) ==
    /\ chat_call = NoChat
    /\ \E query \in Q, dist \in [DOMAIN collection -> D] :
         \E positions \in NearestPositions(collection, dist, DefaultNResults) :
           LET semantic == CollectionQuery(collection, dist, positions)
               searched == search_documents(collection, query, semantic, DefaultNResults,
                                           FALSE)
               search_results == searched.results
           IN IF NoDocuments(search_results)
              THEN chat_call' =
                     [status |-> "returned", query |-> query, semantic |-> semantic,
                      fuzzy_called |-> searched.fuzzy_called,
                      search_results |-> search_results,
                      generator_called |-> FALSE,
                      prompt |-> Prompt(<<>>, <<>>),
                      generated |-> [ok |-> TRUE, text |-> ""],
                      response |-> NoDocumentsMessage,
                      half_updated |-> HalfUpdatedFiles,
                      updating |-> FilesBetweenSteps]
              ELSE \E generated \in GeneratorOutcomes,
                      source_order \in Orderings(Sources(search_results)) :
                     LET context == Context(search_results)
                         answer == generate_response(query, context, generated)
                     IN chat_call' =
                          [status |-> IF answer.raised THEN "raised" ELSE "returned",
                           query |-> query, semantic |-> semantic,
                           fuzzy_called |-> searched.fuzzy_called,
                           search_results |-> search_results,
                           generator_called |-> TRUE,
                           prompt |-> Prompt(query, context),
                           generated |-> generated,
                           response |-> IF answer.raised THEN ""
                                        ELSE WithSources(answer.text, source_order),
                           half_updated |-> HalfUpdatedFiles,
                           updating |-> FilesBetweenSteps]

\* chat(query) while no auto_index_documents call is in progress.
Chat(Q, D) ==
    /\ IdxIdle
    /\ ChatAnswers(Q, D)
    /\ ResultTaken
    /\ UNCHANGED <<folder_exists, folder, collection, processed_files, settled, faults,
                   chunk_call, search_call>>

\* chat(query) in one session, at any point of an auto_index_documents call of
\* another session or between two such calls (the RAGChatbot is shared:
\* st.cache_resource).  The call is one step, at the moment of its search; its
\* answer is handed over (ChatReturn) before the indexer's next step is taken,
\* and the indexing session keeps its own result.
ChatInterleaved(Q, D) ==
    /\ ChatAnswers(Q, D)
    /\ UNCHANGED <<folder_exists, folder, collection, processed_files, idx_pc, files, cur,
                   new_files, updated_files, result, event, snap, settled, rerun, faults,
                   chunk_call, search_call>>

\* The caller has the answer.
ChatReturn ==
    /\ chat_call # NoChat
    /\ chat_call' = NoChat
    /\ UNCHANGED <<folder_exists, folder, collection, processed_files, idx_pc, files, cur,
                   new_files, updated_files, result, event, snap, settled, rerun, faults,
                   chunk_call, search_call>>

-----------------------------------------------------------------------------
(* The environment: the user edits the folder, the process restarts.  The   *)
(* caller has taken the last call's result by then.                         *)

\* A file of Fs is written with a content of Cs.
WriteFile(Fs, Cs) ==
    /\ IdxIdle
    /\ chat_call = NoChat
    /\ folder_exists
    /\ \E f \in Fs, c \in Cs :
          /\ folder[f] # c
          /\ folder' = [folder EXCEPT ![f] = c]
    /\ settled' = FALSE
    /\ ResultTaken
    /\ UNCHANGED <<folder_exists, collection, processed_files, faults, chat_call, chunk_call,
                   search_call>>

DeleteFile ==
    /\ IdxIdle
    /\ chat_call = NoChat
    /\ \E f \in Filenames :
          /\ folder[f] # Absent
          /\ folder' = [folder EXCEPT ![f] = Absent]
    /\ settled' = FALSE
    /\ ResultTaken
    /\ UNCHANGED <<folder_exists, collection, processed_files, faults, chat_call, chunk_call,
                   search_call>>

\* RAGChatbot.__init__ in a new process over the persisted collection.
Restart(F) ==
    /\ IdxIdle
    /\ chat_call = NoChat
    /\ \E get_fails \in F :
          /\ faults + Failures(<<get_fails>>) <= MaxFaults
          /\ faults' = faults + Failures(<<get_fails>>)
          /\ processed_files' = get_processed_files(collection, get_fails)
    /\ ResultTaken
    /\ UNCHANGED <<folder_exists, folder, collection, settled, chat_call, chunk_call,
                   search_call>>

-----------------------------------------------------------------------------

Init ==
    /\ folder_exists \in BOOLEAN
    /\ folder = [f \in Filenames |-> Absent]
    /\ collection = <<>>
    /\ processed_files = get_processed_files(<<>>, FALSE)
    /\ idx_pc = "idle"
    /\ files = <<>>
    /\ cur = NoFile
    /\ new_files = <<>>
    /\ updated_files = <<>>
    /\ result = <<>>
    /\ event = "init"
    /\ snap = <<>>
    /\ settled = FALSE
    /\ rerun = FALSE
    /\ faults = 0
    /\ chat_call = NoChat
    /\ chunk_call = NoCall
    /\ search_call = NoCall

\* Normal operation: the files are readable and the vector store answers; the
\* generative model may still fail.
Next ==
    \/ AutoIndexBegin
    \/ CheckFile({FALSE})
    \/ AddStep({FALSE})
    \/ AutoIndexReturn
    \/ WriteFile(Filenames, Contents)
    \/ DeleteFile
    \/ Restart({FALSE})
    \/ Chat(Queries, Distances)
    \/ ChatReturn

Spec == Init /\ [][Next]_vars

\* Indexing when a collaborator may fail (a file read, a text extraction, a
\* vector store call), at most MaxFaults times.
NextFaults ==
    \/ AutoIndexBegin
    \/ CheckFile(BOOLEAN)
    \/ AddStep(BOOLEAN)
    \/ AutoIndexReturn
    \/ WriteFile(Filenames, Contents)
    \/ DeleteFile
    \/ Restart(BOOLEAN)

SpecFaults == Init /\ [][NextFaults]_vars

-----------------------------------------------------------------------------
(* Properties *)

Stride == chunk_size - overlap

\* The text the extractor gives for file f as it is in the folder.
FileText(f) ==
    IF f \in PdfFiles THEN JoinPages(Pages(folder[f])) ELSE Body(folder[f])

ChunksOf(coll, f) == {coll[i] : i \in {j \in DOMAIN coll : coll[j].metadata.source = f}}

\* s holds u as a contiguous part.
Contains(s, u) ==
    \E k \in 0..(Len(s) - Len(u)) : SubSeq(s, k + 1, k + Len(u)) = u

\* The distinct sources of a result, in the order of their first appearance.
RECURSIVE FirstAppearance(_, _)
FirstAppearance(metadatas, seen) ==
    IF metadatas = <<>> THEN <<>>
    ELSE IF Head(metadatas).source \in seen THEN FirstAppearance(Tail(metadatas), seen)
    ELSE <<Head(metadatas).source>>
           \o FirstAppearance(Tail(metadatas), seen \cup {Head(metadatas).source})

RetrievedSources ==
    {chat_call.search_results.metadatas[i].source :
        i \in DOMAIN chat_call.search_results.metadatas}

SourcesLine(order) == "\n\nSources: " \o Join(order, ", ")

\* C1: once a call of auto_index_documents has returned and the folder is not
\* changed, the next call leaves the collection as it was and returns an empty
\* new_files and an empty updated_files.
IdempotentReindex ==
    (idx_pc = "returned" /\ rerun) =>
        /\ collection = snap
        /\ result = <<<<>>, <<>>>>

\* C1, when the scan finds at least one file: the same, for the calls that
\* reach the loop.
IdempotentReindexOfScannedFiles ==
    (idx_pc = "returned" /\ rerun /\ Len(result) = 2) =>
        /\ collection = snap
        /\ result = <<<<>>, <<>>>>

\* C2: when auto_index_documents returns, the chunks of every file it reports
\* as updated are exactly the chunks of the file's new content: ordinals
\* 0..n-1, the windows of the new text, all with the new hash, none left over.
UpdateReplaces ==
    (idx_pc = "returned" /\ Len(result) = 2) =>
        \A u \in DOMAIN result[2] :
            LET f == result[2][u]
                text == FileText(f)
                n == (Len(text) + Stride - 1) \div Stride
            IN /\ Cardinality({i \in DOMAIN collection :
                                  collection[i].metadata.source = f}) = n
               /\ ChunksOf(collection, f) =
                     {[id |-> f \o "_" \o ToString(k),
                       document |-> SubSeq(text, k * Stride + 1,
                                           Min(k * Stride + chunk_size, Len(text))),
                       metadata |-> [source |-> f, chunk_id |-> k,
                                     file_hash |-> Md5(folder[f])]] : k \in 0..(n - 1)}

\* C2 witness: a call has returned after replacing a file's chunks by fewer.
UpdatedToFewerChunks ==
    /\ idx_pc = "returned"
    /\ Len(result) = 2
    /\ \E u \in DOMAIN result[2] :
          /\ ChunksOf(collection, result[2][u]) # {}
          /\ Cardinality(ChunksOf(snap, result[2][u]))
               > Cardinality(ChunksOf(collection, result[2][u]))

\* C3: the prompt chat passes to the generative model holds the text of every
\* retrieved chunk.
PromptHoldsRetrievedChunks ==
    (chat_call # NoChat /\ chat_call.generator_called) =>
        \A i \in DOMAIN chat_call.search_results.documents :
            \E v \in DOMAIN chat_call.prompt.values :
                Contains(chat_call.prompt.values[v], chat_call.search_results.documents[i])

\* C4: search_documents calls _fuzzy_search exactly when the semantic result is
\* empty or every distance in it is above 0.3.
FallbackIffLowConfidence ==
    chat_call # NoChat =>
        (chat_call.fuzzy_called <=>
            \/ chat_call.semantic.documents = <<>>
            \/ \A i \in DOMAIN chat_call.semantic.distances :
                   chat_call.semantic.distances[i] > 30)

\* C4 witness: the fallback was not called on a semantic result that has one
\* distance of exactly 0.3 and another above it.
NoFallbackAtThreshold ==
    /\ chat_call # NoChat
    /\ ~chat_call.fuzzy_called
    /\ \E i, j \in DOMAIN chat_call.semantic.distances :
          /\ chat_call.semantic.distances[i] = 30
          /\ chat_call.semantic.distances[j] > 30

\* C5: a search that yields no chunk, as on an empty collection, makes chat
\* return the no-documents message without calling the generative model.
NoChunksNoGenerator ==
    chat_call # NoChat =>
        ((collection = <<>> \/ chat_call.search_results.documents = <<>>) =>
            /\ chat_call.status = "returned"
            /\ chat_call.response =
                 "I don't have any documents to search through. Please upload some documents first."
            /\ ~chat_call.generator_called)

\* C5 witness: chat has answered on an empty collection.
AnsweredOnEmptyCollection ==
    /\ chat_call # NoChat
    /\ collection = <<>>
    /\ chat_call.search_results.documents = <<>>

\* C6 as stated: after a successful generation the response ends with the
\* distinct sources in the order of their first appearance among the chunks.
SourcesInOrderOfFirstAppearance ==
    (chat_call # NoChat /\ chat_call.generator_called /\ chat_call.generated.ok) =>
        chat_call.response =
            chat_call.generated.text
              \o SourcesLine(FirstAppearance(chat_call.search_results.metadatas, {}))

\* C6 amended: after a successful generation the response ends with the
\* distinct sources, each once, in some order.
SourcesEachOnce ==
    (chat_call # NoChat /\ chat_call.generator_called /\ chat_call.generated.ok) =>
        \E order \in Orderings(RetrievedSources) :
            chat_call.response = chat_call.generated.text \o SourcesLine(order)

\* C6 witness: an answer over three chunks of two sources.
AnsweredFromTwoSources ==
    /\ chat_call # NoChat
    /\ chat_call.generator_called
    /\ chat_call.generated.ok
    /\ Len(chat_call.search_results.documents) = 3
    /\ Cardinality(RetrievedSources) = 2

\* C7: when the generative model fails, chat returns a string that holds the
\* failure's message.
GeneratorFailureAbsorbed ==
    (chat_call # NoChat /\ chat_call.generator_called /\ ~chat_call.generated.ok) =>
        /\ chat_call.status = "returned"
        /\ \E order \in Orderings(RetrievedSources) :
              chat_call.response =
                  ("Error generating response: " \o chat_call.generated.text)
                    \o SourcesLine(order)

\* C7 witness: chat has answered although the generative model failed.
AnsweredAfterGeneratorFailure ==
    /\ chat_call # NoChat
    /\ chat_call.generator_called
    /\ ~chat_call.generated.ok
    /\ chat_call.status = "returned"

\* C8: auto_index_documents returns a pair of sequences of filenames, whatever
\* the folder holds.
ReturnsPair ==
    idx_pc = "returned" =>
        /\ Len(result) = 2
        /\ result[1] \in Seq(Filenames)
        /\ result[2] \in Seq(Filenames)

\* C9: a file whose extraction gives the empty string is passed over: the
\* collection, the processed set and both lists stay as they are, and the loop
\* goes on with the remaining files.
ExtractionFailureSkipped ==
    [][(idx_pc = "loop" /\ files # <<>> /\ event' # "unchanged" /\ cur'.text = <<>>) =>
          /\ collection' = collection
          /\ processed_files' = processed_files
          /\ new_files' = new_files
          /\ updated_files' = updated_files
          /\ files' = Tail(files)
          /\ idx_pc' = "loop"]_vars

\* C9 witness: the extraction of an indexed, modified file has failed, its
\* chunks are kept, and a file remains to be visited.
SkippedAfterFailedExtraction ==
    /\ idx_pc = "loop"
    /\ event = "no_text"
    /\ faults > 0
    /\ cur.filename \in processed_files
    /\ ChunksOf(collection, cur.filename) # {}
    /\ folder[cur.filename] # "empty"
    /\ files # <<>>

\* C10: a failing vector store call never raises out of auto_index_documents,
\* and after a failed delete no chunk of the file is inserted.
StoreFailureAbsorbed ==
    [][/\ idx_pc' # "raised"
       /\ (idx_pc = "add" /\ event = "remove_failed") => collection' = collection]_vars

-----------------------------------------------------------------------------
(* Properties of classification, chunking and the fallback *)

\* The file_hash on the chunk of f with chunk_id 0, "" when there is none.
StoredHashOf(coll, f) ==
    LET zero == {i \in DOMAIN coll :
                    coll[i].metadata.source = f /\ coll[i].metadata.chunk_id = 0}
    IN IF zero = {} THEN "" ELSE coll[CHOOSE i \in zero : TRUE].metadata.file_hash

\* The chunk records of a text: the windows at the multiples of the stride.
WindowRecords(f, text, hash) ==
    LET n == (Len(text) + Stride - 1) \div Stride
    IN {[id |-> f \o "_" \o ToString(k),
         document |-> SubSeq(text, k * Stride + 1, Min(k * Stride + chunk_size, Len(text))),
         metadata |-> [source |-> f, chunk_id |-> k, file_hash |-> hash]] : k \in 0..(n - 1)}

NoDuplicates(s) == \A i, j \in DOMAIN s : i # j => s[i] # s[j]

\* C11: a scanned file with non-empty text is NEW (appended to new_files, then
\* inserted) iff it is not in the processed set, UPDATED (old chunks deleted,
\* appended to updated_files, then inserted) iff it is in the set and the hash on
\* its chunk 0 differs from the new one, UNCHANGED (nothing changes) otherwise;
\* no filename is reported twice.
ClassifiedAndReported ==
    [][/\ (idx_pc = "loop" /\ files # <<>> /\ FileText(Head(files)) # <<>>) =>
            LET f == Head(files)
            IN IF f \notin processed_files
               THEN /\ new_files' = Append(new_files, f)
                    /\ updated_files' = updated_files
                    /\ collection' = collection
                    /\ idx_pc' = "add"
               ELSE IF StoredHashOf(collection, f) # Md5(folder[f])
               THEN /\ updated_files' = Append(updated_files, f)
                    /\ new_files' = new_files
                    /\ ChunksOf(collection', f) = {}
                    /\ \A g \in Filenames \ {f} :
                          ChunksOf(collection', g) = ChunksOf(collection, g)
                    /\ idx_pc' = "add"
               ELSE /\ new_files' = new_files
                    /\ updated_files' = updated_files
                    /\ collection' = collection
                    /\ idx_pc' = "loop"
                    /\ files' = Tail(files)
       /\ idx_pc = "add" =>
            /\ ChunksOf(collection', cur.filename)
                  = WindowRecords(cur.filename, FileText(cur.filename),
                                  Md5(folder[cur.filename]))
            /\ cur.filename \in processed_files'
            /\ new_files' = new_files
            /\ updated_files' = updated_files
       /\ NoDuplicates(new_files' \o updated_files')]_vars

\* C11 witness: one call has reported a new file and an updated file.
ReportedNewAndUpdated ==
    /\ idx_pc = "returned"
    /\ Len(result) = 2
    /\ result[1] # <<>>
    /\ result[2] # <<>>

-----------------------------------------------------------------------------
(* chunk_text on its own: the loop of lines 83-89 step by step, for any text, *)
(* chunk_size and overlap.                                                   *)

\* The longest text, and the largest chunk_size and overlap, of the small calls.
MaxTextLen == 6
MaxSize == 4

\* The length of the text of the large call (chunk_size 1000, overlap 200).
ExampleLen == 2500

\* The loop is followed for at most this many chunks.
MaxChunks == MaxTextLen + 2

ChunkTexts == {[i \in 1..n |-> LowerLetters[i]] : n \in 0..MaxTextLen}

ExampleText == [i \in 1..ExampleLen |-> LongPattern[((i - 1) % Len(LongPattern)) + 1]]

ChunkArguments ==
    {[text |-> t, size |-> z, overlap |-> o] :
        t \in ChunkTexts, z \in 1..MaxSize, o \in 0..MaxSize}
      \cup {[text |-> ExampleText, size |-> chunk_size, overlap |-> overlap]}

\* lines 82-83: chunks = [], start = 0
ChunkCallBegun(args) ==
    [pc |-> "loop", text |-> args.text, size |-> args.size, overlap |-> args.overlap,
     start |-> 0, chunks |-> <<>>, offsets |-> <<>>]

\* lines 84-88: one pass of the while loop (offsets: history of start)
ChunkStep ==
    /\ chunk_call.pc = "loop"
    /\ chunk_call.start < Len(chunk_call.text)
    /\ Len(chunk_call.chunks) < MaxChunks
    /\ LET end == chunk_call.start + chunk_call.size
           chunk == Slice(chunk_call.text, chunk_call.start, end)
       IN chunk_call' = [chunk_call EXCEPT !.chunks = Append(@, chunk),
                                           !.offsets = Append(@, chunk_call.start),
                                           !.start = NextStart(end, chunk_call.overlap)]
    /\ UNCHANGED <<folder_exists, folder, collection, processed_files, idx_pc, files, cur,
                   new_files, updated_files, result, event, snap, settled, rerun, faults,
                   chat_call, search_call>>

\* line 89: return chunks
ChunkReturn ==
    /\ chunk_call.pc = "loop"
    /\ ~(chunk_call.start < Len(chunk_call.text))
    /\ chunk_call' = [chunk_call EXCEPT !.pc = "returned"]
    /\ UNCHANGED <<folder_exists, folder, collection, processed_files, idx_pc, files, cur,
                   new_files, updated_files, result, event, snap, settled, rerun, faults,
                   chat_call, search_call>>

InitChunk ==
    /\ chunk_call \in {ChunkCallBegun(args) : args \in ChunkArguments}
    /\ search_call = NoCall
    /\ folder_exists = TRUE
    /\ folder = [f \in Filenames |-> Absent]
    /\ collection = <<>>
    /\ processed_files = {}
    /\ idx_pc = "idle"
    /\ files = <<>>
    /\ cur = NoFile
    /\ new_files = <<>>
    /\ updated_files = <<>>
    /\ result = <<>>
    /\ event = "init"
    /\ snap = <<>>
    /\ settled = FALSE
    /\ rerun = FALSE
    /\ faults = 0
    /\ chat_call = NoChat

NextChunk ==
    \/ ChunkStep
    \/ ChunkReturn

SpecChunk == InitChunk /\ [][NextChunk]_vars

\* C12: for 0 <= overlap < size, chunk_text returns the windows that start at
\* the multiples of the stride size - overlap below the length L, each of size
\* characters or cut at L, in order; every position lies in a window, only
\* windows that reach the end of the text are shorter than size, and the empty
\* text gives no chunk.
ChunkCoverage ==
    (/\ chunk_call.pc = "returned"
     /\ 0 <= chunk_call.overlap
     /\ chunk_call.overlap < chunk_call.size) =>
        LET text == chunk_call.text
            L == Len(text)
            size == chunk_call.size
            s == chunk_call.size - chunk_call.overlap
            n == (L + s - 1) \div s
            chunks == chunk_call.chunks
            offsets == chunk_call.offsets
        IN /\ offsets = [i \in 1..n |-> (i - 1) * s]
           /\ chunks = [i \in 1..n |->
                           SubSeq(text, (i - 1) * s + 1, Min((i - 1) * s + size, L))]
           /\ \A p \in 0..(L - 1) :
                 \E i \in DOMAIN chunks :
                     offsets[i] <= p /\ p < offsets[i] + Len(chunks[i])
           /\ \A i \in DOMAIN chunks :
                 Len(chunks[i]) < size =>
                     /\ offsets[i] + size > L
                     /\ \A j \in DOMAIN chunks : j > i => Len(chunks[j]) < size
           /\ L = 0 => chunks = <<>>
           /\ chunks = chunk_text(text, size, chunk_call.overlap)

\* C12 witness: a text of 2500 characters was cut with size 1000 and overlap
\* 200 at the offsets 0, 800, 1600, 2400, the last chunk cut short.
ChunkedAtFourOffsets ==
    /\ chunk_call.pc = "returned"
    /\ Len(chunk_call.text) = 2500
    /\ chunk_call.size = 1000
    /\ chunk_call.overlap = 200
    /\ chunk_call.offsets = <<0, 800, 1600, 2400>>
    /\ Len(chunk_call.chunks[4]) = 100

\* C16: on every pass of the loop of chunk_text start grows, whatever the
\* text, chunk_size and overlap (a call with overlap >= size never loops
\* without advancing).
ChunkTextAdvances ==
    [][(chunk_call.pc = "loop" /\ chunk_call'.pc = "loop" /\ chunk_call' # chunk_call) =>
          chunk_call'.start > chunk_call.start]_vars

-----------------------------------------------------------------------------
(* search_documents on its own, over a store of one-chunk files, for any     *)
(* query, n_results and distances.                                           *)

\* The most chunks in the store, and the largest n_results.
MaxStored == 3
MaxK == 3

\* The stores: n files f1.txt .. fn.txt of one chunk each, indexed in this order.
SearchCollections ==
    UNION {{[i \in 1..n |->
               [id |-> ChunkId("f" \o ToString(i) \o ".txt", 0),
                document |-> SearchTexts[t[i]],
                metadata |-> [source |-> "f" \o ToString(i) \o ".txt", chunk_id |-> 0,
                              file_hash |-> "md5-" \o ToString(t[i])]]] :
              t \in [1..n -> DOMAIN SearchTexts]} : n \in 0..MaxStored}

\* search_documents(query, n_results): the whole call.  The fields fuzzy,
\* fuzzy_failed and scores are history: what _fuzzy_search returned (None when
\* it was not called), whether its store read failed, and the score line 244
\* gives each chunk.
Search ==
    /\ search_call = NoCall
    /\ \E query \in SearchQueries, n_results \in 1..MaxK, get_fails \in BOOLEAN,
          dist \in [DOMAIN collection -> Distances] :
         \E positions \in NearestPositions(collection, dist, n_results) :
           LET semantic == CollectionQuery(collection, dist, positions)
               searched == search_documents(collection, query, semantic, n_results,
                                            get_fails)
           IN search_call' =
                [pc |-> "returned", query |-> query, n_results |-> n_results,
                 semantic |-> semantic,
                 fuzzy_called |-> searched.fuzzy_called,
                 fuzzy_failed |-> searched.fuzzy_called /\ get_fails,
                 fuzzy |-> IF searched.fuzzy_called
                           THEN _fuzzy_search(collection, query, n_results, get_fails)
                           ELSE None,
                 scores |-> [i \in DOMAIN collection |->
                                FuzzyScore(query, collection[i].document)],
                 results |-> searched.results]
    /\ UNCHANGED <<folder_exists, folder, collection, processed_files, idx_pc, files, cur,
                   new_files, updated_files, result, event, snap, settled, rerun, faults,
                   chat_call, chunk_call>>

\* The caller has the results.
SearchReturn ==
    /\ search_call # NoCall
    /\ search_call' = NoCall
    /\ UNCHANGED <<folder_exists, folder, collection, processed_files, idx_pc, files, cur,
                   new_files, updated_files, result, event, snap, settled, rerun, faults,
                   chat_call, chunk_call>>

\* A new process over a persisted store.
InitSearch ==
    /\ collection \in SearchCollections
    /\ processed_files = get_processed_files(collection, FALSE)
    /\ search_call = NoCall
    /\ chunk_call = NoCall
    /\ folder_exists = TRUE
    /\ folder = [f \in Filenames |-> Absent]
    /\ idx_pc = "idle"
    /\ files = <<>>
    /\ cur = NoFile
    /\ new_files = <<>>
    /\ updated_files = <<>>
    /\ result = <<>>
    /\ event = "init"
    /\ snap = <<>>
    /\ settled = FALSE
    /\ rerun = FALSE
    /\ faults = 0
    /\ chat_call = NoChat

NextSearch ==
    \/ Search
    \/ SearchReturn

SpecSearch == InitSearch /\ [][NextSearch]_vars

\* The lower-cased tokens of a text from position i on, word being the token
\* in progress.
RECURSIVE TokensFrom(_, _, _)
TokensFrom(text, i, word) ==
    IF i > Len(text) THEN (IF word = <<>> THEN <<>> ELSE <<word>>)
    ELSE IF text[i] \in {" ", "\n", "\t"}
    THEN (IF word = <<>> THEN <<>> ELSE <<word>>) \o TokensFrom(text, i + 1, <<>>)
    ELSE TokensFrom(text, i + 1, Append(word, Lower(text[i])))

\* The pairs (query token, chunk token), both longer than 3, whose character
\* sets have a Jaccard similarity above 0.7.
PairCount(query, doc) ==
    LET qt == TokensFrom(query, 1, <<>>)
        dt == TokensFrom(doc, 1, <<>>)
    IN Cardinality({pair \in (DOMAIN qt) \X (DOMAIN dt) :
         /\ Len(qt[pair[1]]) > 3
         /\ Len(dt[pair[2]]) > 3
         /\ 10 * Cardinality(Range(qt[pair[1]]) \cap Range(dt[pair[2]]))
               > 7 * Cardinality(Range(qt[pair[1]]) \cup Range(dt[pair[2]]))})

\* The positions of the chunks that score above zero, in store order.
RECURSIVE ScoringPositions(_, _)
ScoringPositions(scores, i) ==
    IF i > Len(scores) THEN <<>>
    ELSE (IF scores[i] > 0 THEN <<i>> ELSE <<>>) \o ScoringPositions(scores, i + 1)

\* C13: the result of _fuzzy_search(query, k) holds the first min(k, m) chunks
\* that score above zero, in store order, each with the distance 0.2.
FuzzyHoldsFirstCandidates ==
    (search_call.pc = "returned" /\ search_call.fuzzy_called
       /\ ~search_call.fuzzy_failed) =>
        LET scoring == ScoringPositions(search_call.scores, 1)
            taken == Min(search_call.n_results, Len(scoring))
        IN taken > 0 =>
             /\ ~search_call.fuzzy.none
             /\ search_call.fuzzy.value.ids =
                   [i \in 1..taken |-> collection[scoring[i]].id]
             /\ search_call.fuzzy.value.documents =
                   [i \in 1..taken |-> collection[scoring[i]].document]
             /\ search_call.fuzzy.value.metadatas =
                   [i \in 1..taken |-> collection[scoring[i]].metadata]
             /\ search_call.fuzzy.value.distances = [i \in 1..taken |-> 20]

\* C14: the score of a chunk is the number of pairs of a query token and a
\* chunk token, lower-cased and both longer than 3, whose character sets have
\* a Jaccard similarity above 0.7: a pair at 0.75 counts, pairs at 0.7 and 0.65
\* do not, and tokens of at most 3 characters never count.
ScoreCountsSimilarPairs ==
    search_call.pc = "returned" =>
        \A i \in DOMAIN collection :
            LET doc == collection[i].document
                score == search_call.scores[i]
            IN /\ score = PairCount(search_call.query, doc)
               /\ (search_call.query = AbcdQuery /\ doc = AbcaText) => score = 1
               /\ (search_call.query = EightQuery /\ doc = EdgesText) => score = 0
               /\ (search_call.query = SixteenQuery /\ doc = EdgesText) => score = 0
               /\ search_call.query = AbcQuery => score = 0
               /\ (search_call.query = TwiceQuery /\ doc = TwoWordsText) => score = 4

\* C14 witness: the fallback returned a chunk for a pair at 0.75 and passed
\* over a chunk whose words are at 0.7 and below.
ScoredAtThreeQuarters ==
    /\ search_call.pc = "returned"
    /\ search_call.query = AbcdQuery
    /\ Len(collection) = 2
    /\ collection[1].document = EdgesText
    /\ collection[2].document = AbcaText
    /\ search_call.scores = <<0, 1>>
    /\ ~search_call.fuzzy.none
    /\ search_call.results.ids = <<collection[2].id>>

\* C18 as stated: without the fallback the semantic result is returned as it
\* is; with it, _fuzzy_search returns None exactly when the store is empty or
\* no chunk scores above zero, and then the semantic result is returned,
\* otherwise the fallback's result.
ResultSelection ==
    search_call.pc = "returned" =>
        /\ ~search_call.fuzzy_called => search_call.results = search_call.semantic
        /\ search_call.fuzzy_called =>
              /\ search_call.fuzzy.none <=>
                    \/ collection = <<>>
                    \/ \A i \in DOMAIN collection :
                          PairCount(search_call.query, collection[i].document) = 0
              /\ search_call.fuzzy.none => search_call.results = search_call.semantic
              /\ ~search_call.fuzzy.none => search_call.results = search_call.fuzzy.value

\* C18 amended: the same, where _fuzzy_search returns None exactly when the
\* store is empty, no chunk scores above zero, or its store read fails.
ResultSelectionOrFailure ==
    search_call.pc = "returned" =>
        /\ ~search_call.fuzzy_called => search_call.results = search_call.semantic
        /\ search_call.fuzzy_called =>
              /\ search_call.fuzzy.none <=>
                    \/ search_call.fuzzy_failed
                    \/ collection = <<>>
                    \/ \A i \in DOMAIN collection :
                          PairCount(search_call.query, collection[i].document) = 0
              /\ search_call.fuzzy.none => search_call.results = search_call.semantic
              /\ ~search_call.fuzzy.none => search_call.results = search_call.fuzzy.value

\* C18 witness: on a low-confidence semantic result over a store in which no
\* chunk scores, the semantic result was returned.
SemanticKeptWhenNothingScores ==
    /\ search_call.pc = "returned"
    /\ search_call.fuzzy_called
    /\ ~search_call.fuzzy_failed
    /\ search_call.fuzzy.none
    /\ Len(search_call.semantic.documents) = 2
    /\ search_call.results = search_call.semantic

-----------------------------------------------------------------------------
(* Properties of the indexer's state *)

\* C15: a scanned file whose fingerprint is the empty string (the file could
\* not be read for hashing) is never passed over as unchanged, also when its
\* chunks carry the empty fingerprint.
EmptyFingerprintReprocessed ==
    [][(/\ idx_pc = "loop"
        /\ files # <<>>
        /\ cur'.filename = Head(files)
        /\ cur'.file_hash = "") => event' # "unchanged"]_vars

StoredSources == {collection[i].metadata.source : i \in DOMAIN collection}

\* C17: between calls of auto_index_documents, the chunks of one source carry
\* one file_hash, no two chunks have the same id, and every source in the
\* store has a chunk with chunk_id 0.
VersionStamp ==
    IdxIdle =>
        /\ \A i, j \in DOMAIN collection :
              collection[i].metadata.source = collection[j].metadata.source =>
                  collection[i].metadata.file_hash = collection[j].metadata.file_hash
        /\ \A i, j \in DOMAIN collection : i # j => collection[i].id # collection[j].id
        /\ \A i \in DOMAIN collection :
              \E j \in DOMAIN collection :
                  /\ collection[j].metadata.source = collection[i].metadata.source
                  /\ collection[j].metadata.chunk_id = 0

\* C19: a chunk leaves the store only in the removal step of an update of its
\* own file, and a returned call has left as they were the chunks of every
\* source it does not report: the unchanged files, the files without extracted
\* text, and the sources whose file is no longer in the folder.
FrameOfIndexing ==
    /\ [][\A g \in Filenames :
             (ChunksOf(collection, g) \ ChunksOf(collection', g) # {}) =>
                 /\ idx_pc = "loop"
                 /\ files # <<>>
                 /\ g = Head(files)
                 /\ folder[g] # Absent
                 /\ cur'.text # <<>>
                 /\ updated_files' = Append(updated_files, g)]_vars
    /\ [][(event' \in {"unchanged", "no_text"} /\ event' # event) =>
             collection' = collection]_vars
    /\ []((idx_pc = "returned" /\ Len(result) = 2) =>
             \A g \in Filenames :
                 (\A k \in DOMAIN result[1] : result[1][k] # g)
                   /\ (\A k \in DOMAIN result[2] : result[2][k] # g)
                   => ChunksOf(collection, g) = ChunksOf(snap, g))

\* C19 witness: a call that updated one file has returned, and the chunks of a
\* source whose file is gone from the folder are still in the store.
KeptChunksOfDeletedFile ==
    /\ idx_pc = "returned"
    /\ Len(result) = 2
    /\ result[2] # <<>>
    /\ \E g \in Filenames :
          /\ folder[g] = Absent
          /\ ChunksOf(collection, g) # {}
          /\ ChunksOf(collection, g) = ChunksOf(snap, g)

\* C20: after construction and after every call of auto_index_documents,
\* returned or aborted, processed_files is the set of the sources in the store.
ProcessedFilesDerived ==
    IdxIdle => processed_files = StoredSources

-----------------------------------------------------------------------------
(* Indexing in one session while another session chats *)

\* The sessions share one RAGChatbot and nothing locks it: a chat may run at
\* any point of an auto_index_documents call.  The files are readable and the
\* store answers, except that add_document (embedding, insertion) may fail.
\* One query is asked, far from every chunk, over a folder whose files are
\* written and rewritten with text.
FarDistance == CHOOSE d \in Distances : d > LowSimilarityThreshold

NextInterleaved ==
    \/ AutoIndexBegin
    \/ CheckFile({FALSE})
    \/ AddStep(BOOLEAN)
    \/ AutoIndexReturn
    \/ WriteFile(Filenames, {"short", "long"})
    \/ DeleteFile
    \/ Restart({FALSE})
    \/ ChatInterleaved({RefundQuery}, {FarDistance})
    \/ ChatReturn

SpecInterleaved == Init /\ [][NextInterleaved]_vars

\* C21: a chat sees a record half-updated (the file is processed, the store
\* holds no chunk of it) only when it runs between the remove_document and the
\* add_document of that file's update; a chat made while no call of
\* auto_index_documents is in progress never sees one.
HalfUpdatedSeenOnlyBetweenSteps ==
    chat_call # NoChat => chat_call.half_updated \subseteq chat_call.updating

\* C21, the interleaving alone: as long as no store call has failed, a chat
\* sees a half-updated record only between the two steps of its update.
HalfUpdatedSeenOnlyBetweenStepsUnlessFailed ==
    (chat_call # NoChat /\ faults = 0) =>
        chat_call.half_updated \subseteq chat_call.updating

\* A chat between the two steps of the update of the only indexed file found
\* the store empty.
ChatSawHalfUpdated ==
    /\ chat_call # NoChat
    /\ faults = 0
    /\ chat_call.half_updated # {}
    /\ chat_call.half_updated = chat_call.updating
    /\ chat_call.response =
         "I don't have any documents to search through. Please upload some documents first."

====
